---------------------------- MODULE Spec2Model ----------------------------
(***************************************************************************)
(* Model of wakaru's un-conditionals transformation: a ternary / logical   *)
(* expression is turned into a DecisionTree (makeDecisionTree) which is    *)
(* rendered as if/else statements (renderDecisionTree), as a switch        *)
(* (renderDecisionTreeWithSwitch) or as an early-return sequence           *)
(* (renderDecisionTreeWithEarlyReturn).  The comparison-base extraction    *)
(* is also run on its own (SpecBases), and so is the un-indirect-call      *)
(* transformation of the same package (SpecIndirect).                      *)
(*                                                                         *)
(* AST nodes are records carrying the node's `type`, as in the ESTree      *)
(* model jscodeshift uses.  Statement lists are sequences.                 *)
(***************************************************************************)
EXTENDS Integers, Sequences, FiniteSets, TLC

VARIABLES
    input,      \* the statement handed to transformAST
    pc,         \* "start" -> "done" (transformed or left alone) -> "ran"
    tree,       \* the DecisionTree built for the statement (Null if none)
    output,     \* the statement list that replaces the statement
    env,        \* the environment the two programs were run in (Null before)
    origRun,    \* outcome of running the original statement in env
    outRun,     \* outcome of running the replacement statements in env
    cond,               \* the condition handed to extractComparisonBases
    bases,              \* the list extractComparisonBases returned
    callSites,          \* un-indirect-call: the file's call sites, in traversal order
    visited,            \* un-indirect-call: how many call sites forEach has visited
    replaced,           \* un-indirect-call: what path.replace put at each call site
    replaceMapping,     \* un-indirect-call: key `obj.prop` -> local name
    imports,            \* un-indirect-call: the ImportManager's named imports
    declarations,       \* un-indirect-call: top-level `const { p: l } = obj`
    bindLog             \* un-indirect-call: the keys of the replaceMapping.set calls

condVars == <<input, tree, output, env, origRun, outRun>>

baseVars == <<cond, bases>>

callVars == <<callSites, visited, replaced, replaceMapping, imports, declarations, bindLog>>

vars == <<pc, condVars, baseVars, callVars>>

----------------------------------------------------------------------------
(* AST builders *)

Null == [type |-> "Null"]

Identifier(n) == [type |-> "Identifier", name |-> n]

Literal(v) == [type |-> "Literal", value |-> v]

CallExpression(n) == [type |-> "CallExpression", callee |-> n]

BinaryExpression(op, l, r) ==
    [type |-> "BinaryExpression", operator |-> op, left |-> l, right |-> r]

LogicalExpression(op, l, r) ==
    [type |-> "LogicalExpression", operator |-> op, left |-> l, right |-> r]

ConditionalExpression(t, c, a) ==
    [type |-> "ConditionalExpression", test |-> t, consequent |-> c, alternate |-> a]

UnaryExpression(op, a) ==
    [type |-> "UnaryExpression", operator |-> op, argument |-> a]

ExpressionStatement(e) == [type |-> "ExpressionStatement", expression |-> e]

ReturnStatement(e) == [type |-> "ReturnStatement", argument |-> e]

BlockStatement(b) == [type |-> "BlockStatement", body |-> b]

IfStatement(t, c, a) ==
    [type |-> "IfStatement", test |-> t, consequent |-> c, alternate |-> a]

BreakStatement == [type |-> "BreakStatement"]

SwitchCase(t, c) == [type |-> "SwitchCase", test |-> t, consequent |-> c]

SwitchStatement(d, cs) ==
    [type |-> "SwitchStatement", discriminant |-> d, cases |-> cs]

DecisionTree(c, t, f) ==
    [type |-> "DecisionTree", condition |-> c, trueBranch |-> t, falseBranch |-> f]

IsLeaf(t) == t.trueBranch = Null /\ t.falseBranch = Null

----------------------------------------------------------------------------
(* Structural equality: two nodes are equal iff their printed source is.   *)
(* toSource prints a node as its token sequence; a compound operand is     *)
(* printed in parentheses.                                                 *)

RECURSIVE toSource(_)
Paren(e) ==
    IF e.type \in {"BinaryExpression", "LogicalExpression", "ConditionalExpression"}
    THEN <<"(">> \o toSource(e) \o <<")">>
    ELSE toSource(e)

toSource(e) ==
    CASE e.type = "Identifier" -> <<e.name>>
      [] e.type = "Literal" -> <<ToString(e.value)>>
      [] e.type = "CallExpression" -> <<e.callee, "(", ")">>
      [] e.type = "UnaryExpression" -> <<e.operator>> \o Paren(e.argument)
      [] e.type \in {"BinaryExpression", "LogicalExpression"} ->
            Paren(e.left) \o <<e.operator>> \o Paren(e.right)
      [] e.type = "ConditionalExpression" ->
            Paren(e.test) \o <<"?">> \o Paren(e.consequent) \o <<":">> \o Paren(e.alternate)

areNodesEqual(node1, node2) == toSource(node1) = toSource(node2)

----------------------------------------------------------------------------
(* Decision tree builder *)

RECURSIVE makeDecisionTree(_)
\* makeDecisionTree with the `||` case building a trueBranch, as `&&` does.
makeDecisionTreeOrAsAnd(node) ==
    IF node.type = "ConditionalExpression"
    THEN DecisionTree(node.test,
                      makeDecisionTree(node.consequent),
                      makeDecisionTree(node.alternate))
    ELSE IF node.type = "LogicalExpression" /\ node.operator \in {"&&", "||"}
    THEN DecisionTree(node.left, makeDecisionTree(node.right), Null)
    ELSE IF node.type = "LogicalExpression" /\ node.operator = "??"
    THEN DecisionTree(BinaryExpression("==", node.left, Identifier("null")),
                      makeDecisionTree(node.right), Null)
    ELSE DecisionTree(node, Null, Null)

makeDecisionTree(node) ==
    IF node.type = "ConditionalExpression"
    THEN DecisionTree(node.test,
                      makeDecisionTree(node.consequent),
                      makeDecisionTree(node.alternate))
    ELSE IF node.type = "LogicalExpression" /\ node.operator = "&&"
    THEN DecisionTree(node.left, makeDecisionTree(node.right), Null)
    ELSE IF node.type = "LogicalExpression" /\ node.operator = "||"
    THEN DecisionTree(node.left, Null, makeDecisionTree(node.right))
    ELSE IF node.type = "LogicalExpression" /\ node.operator = "??"
    THEN DecisionTree(BinaryExpression("==", node.left, Identifier("null")),
                      makeDecisionTree(node.right), Null)
    ELSE DecisionTree(node, Null, Null)

----------------------------------------------------------------------------
(* Switch synthesis *)

SWITCH_THRESHOLD == 3

\* isComparisonBase without the CallExpression exclusion.
isComparisonBaseNoCallCheck(node) == node.type # "Literal"

isComparisonBase(node) ==
    IF node.type = "Literal" THEN FALSE
    ELSE IF node.type = "CallExpression" THEN FALSE
    ELSE TRUE

IsEquality(e) ==
    e.type = "BinaryExpression" /\ e.operator \in {"==", "==="}

IsOr(e) == e.type = "LogicalExpression" /\ e.operator = "||"

\* Array.prototype.find: the first element of s whose test result (hit[i])
\* is true, in a one-element sequence; the empty sequence when there is none.
FindFirst(s, hit) ==
    LET hits == {i \in 1..Len(s) : hit[i]}
    IN IF hits = {} THEN <<>>
       ELSE <<s[CHOOSE i \in hits : \A j \in hits : i <= j]>>

RECURSIVE extractComparisonBases(_)
extractComparisonBases(condition) ==
    IF IsEquality(condition)
    THEN SelectSeq(<<condition.left, condition.right>>, isComparisonBase)
    ELSE IF IsOr(condition)
    THEN LET leftBases == extractComparisonBases(condition.left)
             rightBases == extractComparisonBases(condition.right)
             InRight(node1) ==
                 \E i \in 1..Len(rightBases) : areNodesEqual(node1, rightBases[i])
         IN IF Len(leftBases) > 0 /\ Len(rightBases) > 0
            THEN FindFirst(leftBases,
                           [i \in 1..Len(leftBases) |-> InRight(leftBases[i])])
            ELSE <<>>
    ELSE <<>>

RECURSIVE extractComparisonValues(_, _)
extractComparisonValues(node, base) ==
    IF IsEquality(node) /\ areNodesEqual(node.left, base) THEN <<node.right>>
    ELSE IF IsEquality(node) /\ areNodesEqual(node.right, base) THEN <<node.left>>
    ELSE IF IsOr(node)
    THEN extractComparisonValues(node.left, base)
            \o extractComparisonValues(node.right, base)
    ELSE <<>>

Max(x, y) == IF x >= y THEN x ELSE y

RECURSIVE countBaseVariableUsedInAllBranches(_, _, _)
countBaseVariableUsedInAllBranches(base, t, count) ==
    IF IsLeaf(t) THEN count
    ELSE LET comparisonBases == extractComparisonBases(t.condition) IN
         IF ~ \E i \in 1..Len(comparisonBases) : areNodesEqual(comparisonBases[i], base)
         THEN 0 - 1
         ELSE IF t.trueBranch # Null /\ t.falseBranch # Null
         THEN Max(countBaseVariableUsedInAllBranches(base, t.trueBranch, count + 1),
                  countBaseVariableUsedInAllBranches(base, t.falseBranch, count + 1))
         ELSE IF t.trueBranch # Null
         THEN countBaseVariableUsedInAllBranches(base, t.trueBranch, count + 1)
         ELSE countBaseVariableUsedInAllBranches(base, t.falseBranch, count + 1)

RECURSIVE collectSwitchCase(_, _)
\* collectSwitchCase without the first reverse(): the first comparison value
\* is taken for the last one.
collectSwitchCaseNoReverse(t, base) ==
    IF IsLeaf(t) THEN <<>>
    ELSE
      LET comparisonValues == extractComparisonValues(t.condition, base)
          n == Len(comparisonValues)
          otherCases ==
              [i \in 1..(IF n = 0 THEN 0 ELSE n - 1) |->
                  SwitchCase(comparisonValues[n + 1 - i], <<>>)]
          lastCase ==
              IF n = 0 THEN <<>>
              ELSE IF t.trueBranch # Null
              THEN <<SwitchCase(comparisonValues[1],
                        <<ExpressionStatement(t.trueBranch.condition), BreakStatement>>)>>
              ELSE <<SwitchCase(comparisonValues[1], <<>>)>>
          rest ==
              IF t.falseBranch = Null THEN <<>>
              ELSE IF ~ IsLeaf(t.falseBranch)
              THEN collectSwitchCase(t.falseBranch, base)
              ELSE <<SwitchCase(Null,
                        <<ExpressionStatement(t.falseBranch.condition), BreakStatement>>)>>
      IN otherCases \o lastCase \o rest

collectSwitchCase(t, base) ==
    IF IsLeaf(t) THEN <<>>
    ELSE
      LET comparisonValues == extractComparisonValues(t.condition, base)
          n == Len(comparisonValues)
          otherCases ==
              [i \in 1..(IF n = 0 THEN 0 ELSE n - 1) |->
                  SwitchCase(comparisonValues[i], <<>>)]
          lastCase ==
              IF n = 0 THEN <<>>
              ELSE IF t.trueBranch # Null
              THEN <<SwitchCase(comparisonValues[n],
                        <<ExpressionStatement(t.trueBranch.condition), BreakStatement>>)>>
              ELSE <<SwitchCase(comparisonValues[n], <<>>)>>
          rest ==
              IF t.falseBranch = Null THEN <<>>
              ELSE IF ~ IsLeaf(t.falseBranch)
              THEN collectSwitchCase(t.falseBranch, base)
              ELSE <<SwitchCase(Null,
                        <<ExpressionStatement(t.falseBranch.condition), BreakStatement>>)>>
      IN otherCases \o lastCase \o rest

\* renderDecisionTreeWithSwitch accepting a base whose count reaches `least`.
SwitchWithThreshold(t, least) ==
    LET comparisonBases == extractComparisonBases(t.condition)
        Qualifies(base) == countBaseVariableUsedInAllBranches(base, t, 0) >= least
        comparisonBase ==
            FindFirst(comparisonBases,
                      [i \in 1..Len(comparisonBases) |-> Qualifies(comparisonBases[i])])
    IN IF comparisonBase = <<>> THEN <<>>
       ELSE <<SwitchStatement(comparisonBase[1], collectSwitchCase(t, comparisonBase[1]))>>

\* The threshold test written `>` instead of `>=`.
renderDecisionTreeWithSwitchStrict(t) == SwitchWithThreshold(t, SWITCH_THRESHOLD + 1)

\* No threshold: one node testing the base is enough.
renderDecisionTreeWithSwitchEager(t) == SwitchWithThreshold(t, 1)

\* The switch statement in a one-element sequence, or the empty sequence
\* when the code returns undefined.
renderDecisionTreeWithSwitch(t) ==
    LET comparisonBases == extractComparisonBases(t.condition)
        Qualifies(base) ==
            countBaseVariableUsedInAllBranches(base, t, 0) >= SWITCH_THRESHOLD
        comparisonBase ==
            FindFirst(comparisonBases,
                      [i \in 1..Len(comparisonBases) |-> Qualifies(comparisonBases[i])])
    IN IF Len(comparisonBases) = 0 THEN <<>>
       ELSE IF comparisonBase = <<>> THEN <<>>
       ELSE <<SwitchStatement(comparisonBase[1], collectSwitchCase(t, comparisonBase[1]))>>

----------------------------------------------------------------------------
(* Statement renderers *)

RECURSIVE renderDecisionTree(_)
\* renderDecisionTree always wrapping the false side in an else block (the
\* "naive approach" of its doc comment).
renderDecisionTreeNaive(t) ==
    LET switchStatement == renderDecisionTreeWithSwitch(t) IN
    IF switchStatement # <<>> THEN switchStatement
    ELSE IF t.trueBranch # Null /\ t.falseBranch # Null
    THEN <<IfStatement(t.condition,
                       BlockStatement(renderDecisionTree(t.trueBranch)),
                       BlockStatement(renderDecisionTree(t.falseBranch)))>>
    ELSE IF t.trueBranch # Null
    THEN <<IfStatement(t.condition,
                       BlockStatement(renderDecisionTree(t.trueBranch)), Null)>>
    ELSE IF t.falseBranch # Null
    THEN <<IfStatement(UnaryExpression("!", t.condition),
                       BlockStatement(renderDecisionTree(t.falseBranch)), Null)>>
    ELSE <<ExpressionStatement(t.condition)>>

renderDecisionTree(t) ==
    LET switchStatement == renderDecisionTreeWithSwitch(t) IN
    IF switchStatement # <<>> THEN switchStatement
    ELSE IF t.trueBranch # Null /\ t.falseBranch # Null
    THEN LET falseBranchStatements == renderDecisionTree(t.falseBranch) IN
         IF Len(falseBranchStatements) = 1
               /\ falseBranchStatements[1].type = "IfStatement"
         THEN <<IfStatement(t.condition,
                            BlockStatement(renderDecisionTree(t.trueBranch)),
                            falseBranchStatements[1])>>
         ELSE <<IfStatement(t.condition,
                            BlockStatement(renderDecisionTree(t.trueBranch)),
                            BlockStatement(falseBranchStatements))>>
    ELSE IF t.trueBranch # Null
    THEN <<IfStatement(t.condition,
                       BlockStatement(renderDecisionTree(t.trueBranch)), Null)>>
    ELSE IF t.falseBranch # Null
    THEN <<IfStatement(UnaryExpression("!", t.condition),
                       BlockStatement(renderDecisionTree(t.falseBranch)), Null)>>
    ELSE <<ExpressionStatement(t.condition)>>

RECURSIVE renderDecisionTreeWithEarlyReturn(_)
\* renderDecisionTreeWithEarlyReturn putting the false side in an else block
\* instead of appending it after the if.
renderDecisionTreeWithEarlyReturnElse(t) ==
    IF t.trueBranch # Null /\ t.falseBranch # Null
    THEN <<IfStatement(t.condition,
                       BlockStatement(renderDecisionTreeWithEarlyReturn(t.trueBranch)),
                       BlockStatement(renderDecisionTreeWithEarlyReturn(t.falseBranch)))>>
    ELSE IF t.trueBranch # Null
    THEN <<IfStatement(t.condition,
                       BlockStatement(renderDecisionTreeWithEarlyReturn(t.trueBranch)),
                       Null)>>
    ELSE IF t.falseBranch # Null
    THEN <<IfStatement(UnaryExpression("!", t.condition),
                       BlockStatement(renderDecisionTreeWithEarlyReturn(t.falseBranch)),
                       Null)>>
    ELSE <<ReturnStatement(t.condition)>>

renderDecisionTreeWithEarlyReturn(t) ==
    IF t.trueBranch # Null /\ t.falseBranch # Null
    THEN <<IfStatement(t.condition,
                       BlockStatement(renderDecisionTreeWithEarlyReturn(t.trueBranch)),
                       Null)>>
            \o renderDecisionTreeWithEarlyReturn(t.falseBranch)
    ELSE IF t.trueBranch # Null
    THEN <<IfStatement(t.condition,
                       BlockStatement(renderDecisionTreeWithEarlyReturn(t.trueBranch)),
                       Null)>>
    ELSE IF t.falseBranch # Null
    THEN <<IfStatement(UnaryExpression("!", t.condition),
                       BlockStatement(renderDecisionTreeWithEarlyReturn(t.falseBranch)),
                       Null)>>
    ELSE <<ReturnStatement(t.condition)>>

----------------------------------------------------------------------------
(* Evaluation of the host language, used to compare what the original      *)
(* statement and its replacement do.  Values are integers; NullV stands    *)
(* for null/undefined, Undef for "no value".  An environment gives the     *)
(* value of each identifier; the guard call p() returns 1 and each action  *)
(* call a value of its own.  An outcome carries the trace of identifier    *)
(* reads and calls, in order.                                              *)

NullV == 0 - 1

Undef == 0 - 2

Truthy(v) == v > 0

Bool(b) == IF b THEN 1 ELSE 0

LeafCalls == <<"f", "g", "h", "k", "m">>

CallRet(n) ==
    IF n = "p" THEN 1
    ELSE 10 + (CHOOSE i \in 1..Len(LeafCalls) : LeafCalls[i] = n)

RECURSIVE EvalExpr(_, _)
EvalExpr(x, e) ==
    CASE x.type = "Identifier" ->
            IF x.name = "null" THEN [v |-> NullV, tr |-> <<>>]
            ELSE [v |-> e[x.name], tr |-> <<x.name>>]
      [] x.type = "Literal" -> [v |-> x.value, tr |-> <<>>]
      [] x.type = "CallExpression" ->
            [v |-> CallRet(x.callee), tr |-> <<x.callee \o "()">>]
      [] x.type = "UnaryExpression" ->
            LET a == EvalExpr(x.argument, e)
            IN [v |-> Bool(~ Truthy(a.v)), tr |-> a.tr]
      [] x.type = "BinaryExpression" ->
            LET l == EvalExpr(x.left, e)
                r == EvalExpr(x.right, e)
            IN [v |-> IF x.operator \in {"==", "==="} THEN Bool(l.v = r.v)
                      ELSE Bool(l.v < r.v),
                tr |-> l.tr \o r.tr]
      [] x.type = "LogicalExpression" ->
            LET l == EvalExpr(x.left, e)
                takeRight == CASE x.operator = "&&" -> Truthy(l.v)
                               [] x.operator = "||" -> ~ Truthy(l.v)
                               [] x.operator = "??" -> l.v = NullV
            IN IF takeRight
               THEN LET r == EvalExpr(x.right, e) IN [v |-> r.v, tr |-> l.tr \o r.tr]
               ELSE l
      [] x.type = "ConditionalExpression" ->
            LET t == EvalExpr(x.test, e)
                b == IF Truthy(t.v) THEN EvalExpr(x.consequent, e)
                     ELSE EvalExpr(x.alternate, e)
            IN [v |-> b.v, tr |-> t.tr \o b.tr]

After(tr, r) == [r EXCEPT !.tr = tr \o r.tr]

Normal(tr) == [tr |-> tr, st |-> "normal", val |-> Undef]

\* The index of the case a switch enters for discriminant value d, and the
\* trace of the case tests evaluated to find it; index 0: no case entered.
RECURSIVE MatchCase(_, _, _, _)
MatchCase(cases, d, e, i) ==
    IF i > Len(cases)
    THEN LET defaults == {j \in 1..Len(cases) : cases[j].test = Null}
         IN [idx |-> IF defaults = {} THEN 0
                     ELSE CHOOSE j \in defaults : \A k \in defaults : j <= k,
             tr |-> <<>>]
    ELSE IF cases[i].test = Null THEN MatchCase(cases, d, e, i + 1)
    ELSE LET t == EvalExpr(cases[i].test, e) IN
         IF t.v = d THEN [idx |-> i, tr |-> t.tr]
         ELSE LET m == MatchCase(cases, d, e, i + 1)
              IN [idx |-> m.idx, tr |-> t.tr \o m.tr]

RECURSIVE CaseBodies(_, _)
CaseBodies(cases, i) ==
    IF i = 0 \/ i > Len(cases) THEN <<>>
    ELSE cases[i].consequent \o CaseBodies(cases, i + 1)

RECURSIVE ExecStmt(_, _), ExecList(_, _, _)
ExecStmt(s, e) ==
    CASE s.type = "ExpressionStatement" -> Normal(EvalExpr(s.expression, e).tr)
      [] s.type = "ReturnStatement" ->
            LET a == EvalExpr(s.argument, e)
            IN [tr |-> a.tr, st |-> "return", val |-> a.v]
      [] s.type = "BreakStatement" -> [tr |-> <<>>, st |-> "break", val |-> Undef]
      [] s.type = "BlockStatement" -> ExecList(s.body, e, 1)
      [] s.type = "IfStatement" ->
            LET t == EvalExpr(s.test, e) IN
            IF Truthy(t.v) THEN After(t.tr, ExecStmt(s.consequent, e))
            ELSE IF s.alternate = Null THEN Normal(t.tr)
            ELSE After(t.tr, ExecStmt(s.alternate, e))
      [] s.type = "SwitchStatement" ->
            LET d == EvalExpr(s.discriminant, e)
                m == MatchCase(s.cases, d.v, e, 1)
                r == ExecList(CaseBodies(s.cases, m.idx), e, 1)
            IN After(d.tr \o m.tr,
                     IF r.st = "break" THEN [r EXCEPT !.st = "normal"] ELSE r)

ExecList(stmts, e, i) ==
    IF i > Len(stmts) THEN Normal(<<>>)
    ELSE LET r == ExecStmt(stmts[i], e) IN
         IF r.st # "normal" THEN r ELSE After(r.tr, ExecList(stmts, e, i + 1))

\* The calls of a trace, in order (reads dropped).
IsCall(ev) == ev \in {LeafCalls[i] \o "()" : i \in 1..Len(LeafCalls)} \cup {"p()"}

Calls(tr) == SelectSeq(tr, IsCall)

----------------------------------------------------------------------------
(* The statements the transformation is run on.  An expression is a chain  *)
(* of at most MaxChain links around the tail call k(); the link at level i *)
(* guards with the literal i and acts with LeafAt(i).                      *)

MaxChain == 3

a == Identifier("a")

b == Identifier("b")

LeafAt(i) == CallExpression(LeafCalls[((i - 1) % 3) + 1])

Eq(l, r) == BinaryExpression("==", l, r)

Links(i, x) ==
    { ConditionalExpression(Eq(a, Literal(i)), LeafAt(i), x),
      ConditionalExpression(Eq(a, Literal(i)), x, LeafAt(i)),
      LogicalExpression("||", Eq(a, Literal(i)), x),
      LogicalExpression("&&", Eq(a, Literal(i)), x),
      ConditionalExpression(
          LogicalExpression("||", Eq(a, Literal(i)), Eq(a, Literal(0))), LeafAt(i), x),
      ConditionalExpression(
          Eq(a, Literal(i)), LogicalExpression("&&", b, LeafAt(i)), x),
      ConditionalExpression(BinaryExpression("===", Literal(i), b), LeafAt(i), x),
      ConditionalExpression(Eq(CallExpression("p"), Literal(i)), LeafAt(i), x),
      ConditionalExpression(Eq(a, b), LeafAt(i), x),
      ConditionalExpression(a, LeafAt(i), x),
      LogicalExpression("??", a, x) }

RECURSIVE ChainsAt(_)
ChainsAt(i) ==
    IF i = 0 THEN {CallExpression("k")}
    ELSE UNION {Links(i, x) : x \in ChainsAt(i - 1)}

Expressions == UNION {ChainsAt(i) : i \in 0..MaxChain}

Inputs ==
    {ExpressionStatement(x) : x \in Expressions}
        \cup {ReturnStatement(x) : x \in Expressions}

Envs == [a : 0..MaxChain \cup {NullV}, b : {1, NullV}]

----------------------------------------------------------------------------
(* transformAST: the three passes, each a trigger and its handler *)

RECURSIVE ContainsConditional(_)
ContainsConditional(x) ==
    CASE x.type = "ConditionalExpression" -> TRUE
      [] x.type \in {"BinaryExpression", "LogicalExpression"} ->
            ContainsConditional(x.left) \/ ContainsConditional(x.right)
      [] x.type = "UnaryExpression" -> ContainsConditional(x.argument)
      [] OTHER -> FALSE

IsConditionalStatement(s) ==
    s.type = "ExpressionStatement" /\ s.expression.type = "ConditionalExpression"

IsNestedReturn(s) ==
    /\ s.type = "ReturnStatement"
    /\ s.argument.type = "ConditionalExpression"
    /\ \/ ContainsConditional(s.argument.consequent)
       \/ ContainsConditional(s.argument.alternate)

IsLogicalStatement(s) ==
    s.type = "ExpressionStatement" /\ s.expression.type = "LogicalExpression"

\* The state of a part of the model that a specification does not run.
CondIdle ==
    /\ input = Null
    /\ tree = Null
    /\ output = <<>>
    /\ env = Null
    /\ origRun = Null
    /\ outRun = Null

BasesIdle == cond = Null /\ bases = <<>>

CallsIdle ==
    /\ callSites = <<>>
    /\ visited = 0
    /\ replaced = <<>>
    /\ replaceMapping = {}
    /\ imports = {}
    /\ declarations = {}
    /\ bindLog = <<>>

Init ==
    /\ input \in Inputs
    /\ pc = "start"
    /\ tree = Null
    /\ output = <<>>
    /\ env = Null
    /\ origRun = Null
    /\ outRun = Null
    /\ BasesIdle
    /\ CallsIdle

TransformConditionalStatement ==
    /\ pc = "start"
    /\ IsConditionalStatement(input)
    /\ tree' = makeDecisionTree(input.expression)
    /\ output' = renderDecisionTree(tree')
    /\ pc' = "done"
    /\ UNCHANGED <<baseVars, callVars, input, env, origRun, outRun>>

TransformReturnStatement ==
    /\ pc = "start"
    /\ IsNestedReturn(input)
    /\ tree' = makeDecisionTree(input.argument)
    /\ output' = renderDecisionTreeWithEarlyReturn(tree')
    /\ pc' = "done"
    /\ UNCHANGED <<baseVars, callVars, input, env, origRun, outRun>>

TransformLogicalStatement ==
    /\ pc = "start"
    /\ IsLogicalStatement(input)
    /\ tree' = makeDecisionTree(input.expression)
    /\ output' = renderDecisionTree(tree')
    /\ pc' = "done"
    /\ UNCHANGED <<baseVars, callVars, input, env, origRun, outRun>>

\* No trigger matches: the statement stays as it is.
LeaveUntouched ==
    /\ pc = "start"
    /\ ~ IsConditionalStatement(input)
    /\ ~ IsNestedReturn(input)
    /\ ~ IsLogicalStatement(input)
    /\ output' = <<input>>
    /\ pc' = "done"
    /\ UNCHANGED <<baseVars, callVars, input, tree, env, origRun, outRun>>

\* The original statement and the statements that replaced it are run in an
\* environment.
Run ==
    /\ pc = "done"
    /\ tree # Null
    /\ \E e \in Envs :
        /\ env' = e
        /\ origRun' = ExecStmt(input, e)
        /\ outRun' = ExecList(output, e, 1)
    /\ pc' = "ran"
    /\ UNCHANGED <<baseVars, callVars, input, tree, output>>

Next ==
    \/ TransformConditionalStatement
    \/ TransformReturnStatement
    \/ TransformLogicalStatement
    \/ LeaveUntouched
    \/ Run

Spec == Init /\ [][Next]_vars

----------------------------------------------------------------------------
(* Shapes of trees and of statement lists, for stating the properties *)

RECURSIVE StmtsIn(_)
SubStmts(list) == UNION {StmtsIn(list[i]) : i \in 1..Len(list)}

\* Every statement nested in s, s included.
StmtsIn(s) ==
    {s} \cup
    CASE s.type = "BlockStatement" -> SubStmts(s.body)
      [] s.type = "IfStatement" ->
            StmtsIn(s.consequent)
                \cup (IF s.alternate = Null THEN {} ELSE StmtsIn(s.alternate))
      [] s.type = "SwitchStatement" ->
            UNION {SubStmts(s.cases[i].consequent) : i \in 1..Len(s.cases)}
      [] OTHER -> {}

NoSwitch(list) == \A s \in SubStmts(list) : s.type # "SwitchStatement"

\* Every node of a decision tree, the root included.
RECURSIVE TreeNodes(_)
TreeNodes(t) ==
    IF t = Null THEN {}
    ELSE {t} \cup TreeNodes(t.trueBranch) \cup TreeNodes(t.falseBranch)

HasBoth(t) == t.trueBranch # Null /\ t.falseBranch # Null

TrueOnly(t) == t.trueBranch # Null /\ t.falseBranch = Null

FalseOnly(t) == t.trueBranch = Null /\ t.falseBranch # Null

Transformed == pc \in {"done", "ran"} /\ tree # Null

\* The statement was an expression statement and renderDecisionTree rendered it.
Rendered == Transformed /\ input.type = "ExpressionStatement"

\* The statement was a return and renderDecisionTreeWithEarlyReturn rendered it.
RenderedReturn == Transformed /\ input.type = "ReturnStatement"

----------------------------------------------------------------------------
(* C1: when an expression statement is rendered without any switch, running *)
(* the rendered statements in any environment reads the same guards and     *)
(* performs the same calls, in the same order, as evaluating the original   *)
(* ternary/logical expression, and completes normally like it.              *)
C1_Faithful ==
    (pc = "ran" /\ Rendered /\ NoSwitch(output)) => outRun = origRun

\* A run of a switch-free rendering whose tree has a both-branch node, a
\* trueBranch-only node and a falseBranch-only node, and that performed a call.
C1_Witness ==
    /\ pc = "ran" /\ Rendered /\ NoSwitch(output)
    /\ \E n \in TreeNodes(tree) : HasBoth(n)
    /\ \E n \in TreeNodes(tree) : TrueOnly(n)
    /\ \E n \in TreeNodes(tree) : FalseOnly(n)
    /\ Calls(outRun.tr) # <<>>

(* C2: when the whole expression statement is rendered as a switch, running *)
(* the switch performs exactly the calls that evaluating the original       *)
(* expression performs (none when the original performs none).              *)
C2_SwitchSameCalls ==
    (pc = "ran" /\ Rendered /\ output[1].type = "SwitchStatement")
        => Calls(outRun.tr) = Calls(origRun.tr)

(* C3: in an early-return rendering, when the root (both-branch) condition  *)
(* is truthy the guarded true-branch block ends in a Return: the run        *)
(* returns the value the original return statement returns and performs the *)
(* same calls, so no statement rendered from the falseBranch is executed.   *)
C3_EarlyReturnNoFallthrough ==
    (pc = "ran" /\ RenderedReturn /\ HasBoth(tree)
            /\ Truthy(EvalExpr(tree.condition, env).v))
        => /\ outRun.st = "return"
           /\ outRun.val = origRun.val
           /\ Calls(outRun.tr) = Calls(origRun.tr)

----------------------------------------------------------------------------
(* Chains of ternaries, read off the original expression *)

IsLeafExpr(x) == x.type \notin {"ConditionalExpression", "LogicalExpression"}

IsBaseEq(c, base) ==
    IsEquality(c) /\ c.left = base /\ c.right.type = "Literal"

\* The literals a chain test compares base with: `base == v` or
\* `base == v || base == w`; the empty sequence for any other test.
TestValues(c, base) ==
    IF IsBaseEq(c, base) THEN <<c.right>>
    ELSE IF IsOr(c) /\ IsBaseEq(c.left, base) /\ IsBaseEq(c.right, base)
    THEN <<c.left.right, c.right.right>>
    ELSE <<>>

\* c1 ? f1() : c2 ? f2() : ... : h(), every consequent a leaf.
RECURSIVE IsTernaryChain(_)
IsTernaryChain(x) ==
    /\ x.type = "ConditionalExpression"
    /\ IsLeafExpr(x.consequent)
    /\ IsLeafExpr(x.alternate) \/ IsTernaryChain(x.alternate)

RECURSIVE ChainLen(_)
ChainLen(x) == IF IsLeafExpr(x) THEN 0 ELSE 1 + ChainLen(x.alternate)

RECURSIVE ChainTests(_)
ChainTests(x) == IF IsLeafExpr(x) THEN <<>> ELSE <<x.test>> \o ChainTests(x.alternate)

\* A ternary chain whose tests all compare base with literals.
IsGroupChain(x, base) ==
    /\ IsTernaryChain(x)
    /\ base.type = "Identifier"
    /\ \A i \in 1..ChainLen(x) : TestValues(ChainTests(x)[i], base) # <<>>

\* ... and each test is a single equality `base == v`.
IsEqChain(x, base) ==
    /\ IsGroupChain(x, base)
    /\ \A i \in 1..ChainLen(x) : IsBaseEq(ChainTests(x)[i], base)

\* The base a chain's first test compares (the left operand of its first
\* equality).
ChainBase(x) ==
    IF x.type # "ConditionalExpression" THEN Null
    ELSE IF IsEquality(x.test) THEN x.test.left
    ELSE IF IsOr(x.test) /\ IsEquality(x.test.left) THEN x.test.left.left
    ELSE Null

\* The cases expected of the switch for a group chain: the labels of a test
\* share the body of its last label; the final leaf is the default.
RECURSIVE ExpectedCases(_, _)
ExpectedCases(x, base) ==
    IF IsLeafExpr(x)
    THEN <<SwitchCase(Null, <<ExpressionStatement(x), BreakStatement>>)>>
    ELSE LET vs == TestValues(x.test, base)
             body == <<ExpressionStatement(x.consequent), BreakStatement>>
         IN (IF Len(vs) = 2 THEN <<SwitchCase(vs[1], <<>>), SwitchCase(vs[2], body)>>
             ELSE <<SwitchCase(vs[1], body)>>)
            \o ExpectedCases(x.alternate, base)

\* if (..) { leaf } else if (..) { leaf } ... else { leaf }
RECURSIVE IsIfChain(_)
IsIfChain(s) ==
    /\ s.type = "IfStatement"
    /\ Len(s.consequent.body) = 1
    /\ s.consequent.body[1].type = "ExpressionStatement"
    /\ \/ IsIfChain(s.alternate)
       \/ /\ s.alternate.type = "BlockStatement"
          /\ Len(s.alternate.body) = 1
          /\ s.alternate.body[1].type = "ExpressionStatement"

\* The number of internal nodes on the longest root-to-leaf path.
RECURSIVE Height(_)
Height(t) ==
    IF t = Null THEN 0
    ELSE IF IsLeaf(t) THEN 0
    ELSE 1 + Max(Height(t.trueBranch), Height(t.falseBranch))

----------------------------------------------------------------------------
(* C4: a right-nested chain a==v1 ? f1() : ... : a==vn ? fn() : k() on an   *)
(* identifier a with literal vi is rendered as the single switch(a) with    *)
(* cases v1..vn and default exactly when n >= 3, and as an if / else-if     *)
(* chain when n < 3; and no tree whose root-to-leaf paths all have fewer    *)
(* than 3 internal nodes is rendered with a switch.                         *)
C4_SwitchThreshold ==
    Rendered =>
        /\ IsEqChain(input.expression, ChainBase(input.expression)) =>
              IF ChainLen(input.expression) >= 3
              THEN output = <<SwitchStatement(ChainBase(input.expression),
                                ExpectedCases(input.expression,
                                              ChainBase(input.expression)))>>
              ELSE Len(output) = 1 /\ IsIfChain(output[1])
        /\ Height(tree) < 3 => NoSwitch(output)

\* A chain of at least three equalities on one identifier was rendered as a
\* switch.
C4_Witness ==
    /\ Rendered
    /\ IsEqChain(input.expression, ChainBase(input.expression))
    /\ ChainLen(input.expression) >= 3
    /\ output[1].type = "SwitchStatement"
    /\ Len(output[1].cases) = ChainLen(input.expression) + 1

\* a==x || a==y ? f() : g(), alone.
IsOrPair(x) ==
    /\ IsGroupChain(x, ChainBase(x))
    /\ ChainLen(x) = 1
    /\ IsOr(x.test)

(* C5 as claimed: a==x||a==y ? f() : g() is rendered as a switch on a with  *)
(* the labels x and y sharing the body f(); break, then default g().        *)
C5_OrPairIsSwitch ==
    (Rendered /\ IsOrPair(input.expression)) =>
        output = <<SwitchStatement(ChainBase(input.expression),
                     ExpectedCases(input.expression, ChainBase(input.expression)))>>

(* C5 amended: a==x||a==y ? f() : g() alone has one internal node, below    *)
(* the threshold, and is rendered as if (a==x||a==y) { f() } else { g() };  *)
(* the two labels sharing one body appear when the OR test belongs to a     *)
(* chain of at least 3 tests on a, which is rendered as the switch whose    *)
(* OR tests give a bodiless label followed by the label carrying the body.  *)
C5_FallthroughGrouping ==
    Rendered =>
        /\ IsOrPair(input.expression) =>
              output = <<IfStatement(input.expression.test,
                            BlockStatement(<<ExpressionStatement(
                                               input.expression.consequent)>>),
                            BlockStatement(<<ExpressionStatement(
                                               input.expression.alternate)>>))>>
        /\ (/\ IsGroupChain(input.expression, ChainBase(input.expression))
            /\ ChainLen(input.expression) >= 3) =>
              output = <<SwitchStatement(ChainBase(input.expression),
                            ExpectedCases(input.expression,
                                          ChainBase(input.expression)))>>

\* The OR pair alone was rendered as an if / else.
C5_Witness ==
    /\ Rendered
    /\ IsOrPair(input.expression)
    /\ output[1].type = "IfStatement"
    /\ output[1].alternate.type = "BlockStatement"

\* A chain of at least three tests, one of them an OR pair, was rendered as a
\* switch with a bodiless label.
C5_GroupedWitness ==
    /\ Rendered
    /\ IsGroupChain(input.expression, ChainBase(input.expression))
    /\ ChainLen(input.expression) >= 3
    /\ output[1].type = "SwitchStatement"
    /\ \E i \in 1..Len(output[1].cases) :
          output[1].cases[i].test # Null /\ output[1].cases[i].consequent = <<>>

\* x ?? (y ?? (... ?? leaf)): `??` guards alone.
RECURSIVE IsNullishChain(_)
IsNullishChain(x) ==
    /\ x.type = "LogicalExpression"
    /\ x.operator = "??"
    /\ IsLeafExpr(x.right) \/ IsNullishChain(x.right)

(* C6: an expression statement left ?? right where right is a leaf or       *)
(* itself a `??` expression, nested to any depth, is rendered as exactly    *)
(* one if whose test is left == null, whose block is the rendering of right *)
(* and which has no else; and no switch of the output has the synthesized   *)
(* null as its discriminant.                                                *)
C6_NullishIsIf ==
    (Rendered /\ IsNullishChain(input.expression)) =>
        /\ output = <<IfStatement(
                        BinaryExpression("==", input.expression.left, Identifier("null")),
                        BlockStatement(renderDecisionTree(
                            makeDecisionTree(input.expression.right))),
                        Null)>>
        /\ \A s \in SubStmts(output) :
              s.type = "SwitchStatement" => s.discriminant # Identifier("null")

----------------------------------------------------------------------------
\* The tests of the if statements of a switch-free statement list, in source
\* order.
RECURSIVE TestsOf(_), TestsOfList(_, _)
TestsOf(s) ==
    CASE s.type = "IfStatement" ->
            <<s.test>> \o TestsOf(s.consequent)
                \o (IF s.alternate = Null THEN <<>> ELSE TestsOf(s.alternate))
      [] s.type = "BlockStatement" -> TestsOfList(s.body, 1)
      [] OTHER -> <<>>

TestsOfList(list, i) ==
    IF i > Len(list) THEN <<>> ELSE TestsOf(list[i]) \o TestsOfList(list, i + 1)

\* The guards of a tree's internal nodes, root first, true side before false
\* side; the guard of a falseBranch-only node is its negated condition.
RECURSIVE Guards(_)
Guards(t) ==
    IF t = Null THEN <<>>
    ELSE IF IsLeaf(t) THEN <<>>
    ELSE <<IF FalseOnly(t) THEN UnaryExpression("!", t.condition) ELSE t.condition>>
            \o Guards(t.trueBranch) \o Guards(t.falseBranch)

\* An equality whose only non-literal operand is a call.
IsCallEq(c) ==
    /\ IsEquality(c)
    /\ \/ c.left.type = "CallExpression" /\ c.right.type = "Literal"
       \/ c.left.type = "Literal" /\ c.right.type = "CallExpression"

(* C7: the discriminant of every switch in the output of renderDecisionTree *)
(* is neither a call nor a literal; a tree whose root compares a call with  *)
(* a literal is not rendered as a switch; and in switch-free output the if  *)
(* tests are exactly the guards of the tree's internal nodes, each once, in *)
(* order.                                                                   *)
C7_NoCallDiscriminant ==
    Rendered =>
        /\ \A s \in SubStmts(output) :
              s.type = "SwitchStatement" =>
                  s.discriminant.type \notin {"CallExpression", "Literal"}
        /\ IsCallEq(tree.condition) => output[1].type # "SwitchStatement"
        /\ NoSwitch(output) => TestsOfList(output, 1) = Guards(tree)

\* p()==3 ? .. : p()==2 ? .. : p()==1 ? .. : .. was rendered, as ifs.
C7_Witness ==
    /\ Rendered
    /\ IsTernaryChain(input.expression)
    /\ ChainLen(input.expression) >= 3
    /\ \A i \in 1..ChainLen(input.expression) : IsCallEq(ChainTests(input.expression)[i])
    /\ Len(TestsOfList(output, 1)) = ChainLen(input.expression)

(* C8: the output of renderDecisionTree is one statement; for a both-branch *)
(* root rendered as an if, the else part is the rendering of the false side *)
(* itself when that is exactly one if, and a block around it otherwise; so  *)
(* no else block of the output consists of a single if.                     *)
C8_ElseIfFlattening ==
    Rendered =>
        /\ Len(output) = 1
        /\ (HasBoth(tree) /\ output[1].type = "IfStatement") =>
              LET falseSide == renderDecisionTree(tree.falseBranch)
              IN output[1].alternate =
                    IF Len(falseSide) = 1 /\ falseSide[1].type = "IfStatement"
                    THEN falseSide[1]
                    ELSE BlockStatement(falseSide)
        /\ \A s \in SubStmts(output) :
              (s.type = "IfStatement" /\ s.alternate.type = "BlockStatement") =>
                  ~ (Len(s.alternate.body) = 1
                        /\ s.alternate.body[1].type = "IfStatement")

\* x ? f() : y ? g() : h() with plain guards was rendered as an if whose else
\* part is an if.
C8_Witness ==
    /\ Rendered
    /\ IsTernaryChain(input.expression)
    /\ ChainLen(input.expression) = 2
    /\ \A i \in 1..2 : ChainTests(input.expression)[i].type = "Identifier"
    /\ output[1].type = "IfStatement"
    /\ output[1].alternate.type = "IfStatement"
    /\ output[1].alternate.alternate.type = "BlockStatement"

\* if (c1) { return f1() } if (c2) { return f2() } ... return h()
RECURSIVE ExpectedEarlyReturn(_)
ExpectedEarlyReturn(x) ==
    IF IsLeafExpr(x) THEN <<ReturnStatement(x)>>
    ELSE <<IfStatement(x.test, BlockStatement(<<ReturnStatement(x.consequent)>>), Null)>>
            \o ExpectedEarlyReturn(x.alternate)

C10_Idempotent ==
    Transformed =>
        \A s \in SubStmts(output) :
            /\ ~ IsConditionalStatement(s)
            /\ ~ IsLogicalStatement(s)
            /\ ~ IsNestedReturn(s)

----------------------------------------------------------------------------
(* extractComparisonBases on its own: a condition is drawn and the function *)
(* is applied to it.  A condition is a comparison of two operands, a plain  *)
(* operand, or at most MaxOr logical operators nested around comparisons.   *)

MaxOr == 2

Operands == {a, b, Literal(1), CallExpression("p")}

Comparisons ==
    {BinaryExpression(op, l, r) : op \in {"==", "===", "<"}, l \in Operands, r \in Operands}

LogicalOperands ==
    { Eq(a, b), Eq(b, a), Eq(a, Literal(1)), Eq(CallExpression("p"), Literal(1)) }

RECURSIVE LogicalsAt(_)
LogicalsAt(d) ==
    IF d = 0 THEN LogicalOperands
    ELSE LET inner == LogicalsAt(d - 1)
         IN { IF side = 1 THEN LogicalExpression(op, x, y)
                          ELSE LogicalExpression(op, y, x) :
                 op \in {"||", "&&"}, x \in inner,
                 y \in LogicalOperands, side \in 1..2 }

ConditionsUpTo(n) ==
    Comparisons \cup Operands \cup {UnaryExpression("!", a)}
        \cup UNION {LogicalsAt(d) : d \in 1..n}

InitBases ==
    /\ pc = "start"
    /\ cond \in ConditionsUpTo(MaxOr)
    /\ bases = <<>>
    /\ CondIdle
    /\ CallsIdle

ExtractBases ==
    /\ pc = "start"
    /\ bases' = extractComparisonBases(cond)
    /\ pc' = "extracted"
    /\ UNCHANGED <<cond, condVars, callVars>>

NextBases == ExtractBases

SpecBases == InitBases /\ [][NextBases]_vars

\* The operands of an equality that are neither a Literal nor a Call.
EqualityBases(c) ==
    LET Candidate(x) == x.type \notin {"Literal", "CallExpression"}
    IN SelectSeq(<<c.left, c.right>>, Candidate)

\* The candidate bases of X that are structurally equal to some candidate
\* base of Y, for a condition X || Y.
CommonBases(c) ==
    LET xs == extractComparisonBases(c.left)
        ys == extractComparisonBases(c.right)
        OnRight(x) == \E i \in 1..Len(ys) : toSource(x) = toSource(ys[i])
    IN SelectSeq(xs, OnRight)

(* C11 as claimed: for X || Y the result is every candidate base of X that  *)
(* is structurally equal to a candidate base of Y; for one == / ===         *)
(* comparison both operands minus Literals and Calls; the empty list for    *)
(* any other expression.                                                    *)
C11_AllCommonBases ==
    pc = "extracted" =>
        bases = IF IsEquality(cond) THEN EqualityBases(cond)
                ELSE IF IsOr(cond) THEN CommonBases(cond)
                ELSE <<>>

----------------------------------------------------------------------------
\* The whole statement was rendered as one switch.
SwitchedAtRoot ==
    Transformed /\ Len(output) = 1 /\ output[1].type = "SwitchStatement"

\* The operands of an OR-chain, left to right.
RECURSIVE OrOperands(_)
OrOperands(c) ==
    IF IsOr(c) THEN OrOperands(c.left) \o OrOperands(c.right) ELSE <<c>>

\* What an equality compares base with; nothing for any other operand.
ValueAgainst(e, base) ==
    IF IsEquality(e) /\ toSource(e.left) = toSource(base) THEN <<e.right>>
    ELSE IF IsEquality(e) /\ toSource(e.right) = toSource(base) THEN <<e.left>>
    ELSE <<>>

RECURSIVE ValuesOfOperands(_, _)
ValuesOfOperands(es, base) ==
    IF es = <<>> THEN <<>>
    ELSE ValueAgainst(Head(es), base) \o ValuesOfOperands(Tail(es), base)

\* The values a node's OR-chain compares against base, in source order.
NodeValues(n, base) == ValuesOfOperands(OrOperands(n.condition), base)

\* The internal nodes along the falseBranch chain, from the root.
RECURSIVE FalseChain(_)
FalseChain(t) ==
    IF IsLeaf(t) THEN <<>>
    ELSE <<t>> \o (IF t.falseBranch = Null THEN <<>> ELSE FalseChain(t.falseBranch))

RECURSIVE ChainValues(_, _)
ChainValues(chain, base) ==
    IF chain = <<>> THEN <<>>
    ELSE NodeValues(Head(chain), base) \o ChainValues(Tail(chain), base)

IsLabel(c) == c.test # Null

(* C12: in the case list of a synthesized switch on base b, the labels come *)
(* in the order of the nodes along the falseBranch chain and, within a      *)
(* node, in left-to-right order of the values its OR-chain compares against *)
(* b; every label of a node but its last has an empty body, the last label  *)
(* carries [action; break] when the node has a trueBranch and an empty body *)
(* otherwise; a default is present exactly when the chain ends in a leaf    *)
(* falseBranch, and then it is the only default and the last case.          *)
C12_CaseOrder ==
    SwitchedAtRoot =>
        LET base == output[1].discriminant
            cases == output[1].cases
            labels == SelectSeq(cases, IsLabel)
            chain == FalseChain(tree)
            last == chain[Len(chain)]
        IN /\ [i \in 1..Len(labels) |-> labels[i].test] = ChainValues(chain, base)
           /\ \A k \in 1..Len(chain) :
                LET m == Len(NodeValues(chain[k], base))
                    off == Len(ChainValues(SubSeq(chain, 1, k - 1), base))
                IN \A i \in 1..m :
                      labels[off + i].consequent =
                          IF i < m \/ chain[k].trueBranch = Null THEN <<>>
                          ELSE <<ExpressionStatement(chain[k].trueBranch.condition),
                                 BreakStatement>>
           /\ (\E i \in 1..Len(cases) : cases[i].test = Null)
                 <=> (last.falseBranch # Null /\ IsLeaf(last.falseBranch))
           /\ \A i \in 1..Len(cases) : cases[i].test = Null => i = Len(cases)

\* A switch whose chain has a node with two labels, a node with a falseBranch
\* only, and a final leaf that became the default.
C12_Witness ==
    /\ SwitchedAtRoot
    /\ \E k \in 1..Len(FalseChain(tree)) :
          Len(NodeValues(FalseChain(tree)[k], output[1].discriminant)) = 2
    /\ \E k \in 1..Len(FalseChain(tree)) : FalseOnly(FalseChain(tree)[k])
    /\ output[1].cases[Len(output[1].cases)].test = Null

\* A switch without a default: its chain ends in a node with no falseBranch.
C12_NoDefaultWitness ==
    /\ SwitchedAtRoot
    /\ \A i \in 1..Len(output[1].cases) : output[1].cases[i].test # Null

----------------------------------------------------------------------------
\* The node's own comparison bases include base.
TestsBase(n, base) ==
    LET comparisonBases == extractComparisonBases(n.condition)
    IN \E i \in 1..Len(comparisonBases) : toSource(comparisonBases[i]) = toSource(base)

(* C13: whenever a tree is turned into a switch on base b, every internal   *)
(* node of the tree, on the trueBranch side as well as along the            *)
(* falseBranch chain, has b among its own comparison bases.                 *)
C13_BaseInAllBranches ==
    SwitchedAtRoot =>
        \A n \in TreeNodes(tree) : ~ IsLeaf(n) => TestsBase(n, output[1].discriminant)

----------------------------------------------------------------------------
(* un-indirect-call: the indirect call sites `(0, obj.prop)(args)` of one   *)
(* file are visited in traversal order.  The file is                        *)
(*     import s, { bar as bar_0 } from 'react'                              *)
(*     import t from 'react'                                                *)
(*     const r = require('lib')                                             *)
(*     const { bar: rb } = r                                                *)
(*     <call site 1>                                                        *)
(*     const { foo: rf } = r                                                *)
(*     <call site 2> ...                                                    *)
(* and `u` is neither imported nor required.                                *)

MaxSites == 3

Objects == {"s", "t", "r", "u"}

Properties == {"foo", "bar"}

\* (0, object.property)(arguments)
IndirectCall(object, property, arguments) ==
    [type |-> "IndirectCall", object |-> object, property |-> property,
     arguments |-> arguments]

callExpression(callee, arguments) ==
    [type |-> "CallExpression", callee |-> callee, arguments |-> arguments]

CallSiteLists ==
    UNION { { [i \in 1..n |-> IndirectCall(f[i][1], f[i][2], <<Literal(i)>>)] :
                f \in [1..n -> Objects \X Properties] } : n \in 1..MaxSites }

defaultImports ==
    { [local |-> "s", source |-> "react"], [local |-> "t", source |-> "react"] }

\* The sources whose default import is bound to `local` (none: undefined).
getDefaultImport(local) == {d.source : d \in {d \in defaultImports : d.local = local}}

\* The local names of the named import of `imported` from `source`.
namedImportLocals(source, imported) ==
    {n.local : n \in {n \in imports : n.source = source /\ n.imported = imported}}

getAllLocals == {d.local : d \in defaultImports} \cup {n.local : n \in imports}

\* Top-level `const <name> = require('...')`.
requireDecl(name) == name \in {"r"}

\* Position of a declaration inserted by the transformation: it carries no
\* position, and isPositionBetween accepts it for every call site.
Inserted == 0

\* `const { property: local } = object` at top level, between the require
\* declaration and call site i.
propertyDecl(object, property, i) ==
    {d \in declarations : d.object = object /\ d.property = property /\ d.pos < i}

\* `const { ... } = object` at top level, between the require declaration
\* and call site i.
existingDestructuring(object, i) ==
    {d \in declarations : d.object = object /\ d.pos < i}

\* The names generateName may return for `name`: one that is not in `existing`.
generateName(name, existing) ==
    {name, name \o "_1", name \o "_2", name \o "_3"} \ existing

Key(object, property) == object \o "." \o property

\* replaceMapping.has answering false for every key.
MapHasNever(m, key) == FALSE

MapHas(m, key) == \E e \in m : e.key = key

MapGet(m, key) == (CHOOSE e \in m : e.key = key).value

MapSet(m, key, value) == {e \in m : e.key # key} \cup {[key |-> key, value |-> value]}

InitIndirect ==
    /\ pc = "start"
    /\ callSites \in CallSiteLists
    /\ visited = 0
    /\ replaced = [i \in 1..Len(callSites) |-> Null]
    /\ replaceMapping = {}
    /\ imports = {[source |-> "react", imported |-> "bar", local |-> "bar_0"]}
    /\ declarations =
          { [object |-> "r", property |-> "bar", local |-> "rb", pos |-> 0],
            [object |-> "r", property |-> "foo", local |-> "rf", pos |-> 1] }
    /\ bindLog = <<>>
    /\ CondIdle
    /\ BasesIdle

\* The call site forEach visits next.
Site == callSites[visited + 1]

Visiting == pc = "start" /\ visited < Len(callSites)

\* path.replace(j.callExpression(j.identifier(localName), node.arguments))
Replace(localName) ==
    /\ replaced' = [replaced EXCEPT
                       ![visited + 1] = callExpression(localName, Site.arguments)]
    /\ visited' = visited + 1

\* replaceMapping.set(key, localName)
Bind(localName) ==
    /\ replaceMapping' = MapSet(replaceMapping, Key(Site.object, Site.property), localName)
    /\ bindLog' = Append(bindLog, Key(Site.object, Site.property))

\* The key is already mapped.
RewriteFromMapping ==
    /\ Visiting
    /\ MapHas(replaceMapping, Key(Site.object, Site.property))
    /\ Replace(MapGet(replaceMapping, Key(Site.object, Site.property)))
    /\ UNCHANGED <<pc, callSites, replaceMapping, imports, declarations, bindLog,
                   condVars, baseVars>>

\* obj is a default import and prop is already imported from its source.
RewriteFromNamedImport ==
    /\ Visiting
    /\ ~ MapHas(replaceMapping, Key(Site.object, Site.property))
    /\ \E source \in getDefaultImport(Site.object) :
         \E namedImportLocalName \in namedImportLocals(source, Site.property) :
            /\ Bind(namedImportLocalName)
            /\ Replace(namedImportLocalName)
    /\ UNCHANGED <<pc, callSites, imports, declarations, condVars, baseVars>>

\* obj is a default import and prop is not imported yet.
RewriteWithNewImport ==
    /\ Visiting
    /\ ~ MapHas(replaceMapping, Key(Site.object, Site.property))
    /\ \E source \in getDefaultImport(Site.object) :
         /\ namedImportLocals(source, Site.property) = {}
         /\ \E namedSpecifierLocalName \in generateName(Site.property, getAllLocals) :
              /\ imports' = imports \cup
                    {[source |-> source, imported |-> Site.property,
                      local |-> namedSpecifierLocalName]}
              /\ Bind(namedSpecifierLocalName)
              /\ Replace(namedSpecifierLocalName)
    /\ UNCHANGED <<pc, callSites, declarations, condVars, baseVars>>

\* obj is a top-level require binding and no destructuring of prop is found.
RewriteWithNewDestructuring ==
    /\ Visiting
    /\ ~ MapHas(replaceMapping, Key(Site.object, Site.property))
    /\ getDefaultImport(Site.object) = {}
    /\ requireDecl(Site.object)
    /\ propertyDecl(Site.object, Site.property, visited + 1) = {}
    /\ \E valueName \in generateName(Site.property, {e.value : e \in replaceMapping}) :
         /\ Bind(valueName)
         /\ \E pos \in IF existingDestructuring(Site.object, visited + 1) = {}
                       THEN {Inserted}
                       ELSE {d.pos : d \in existingDestructuring(Site.object, visited + 1)} :
              declarations' = declarations \cup
                 {[object |-> Site.object, property |-> Site.property,
                   local |-> valueName, pos |-> pos]}
         /\ Replace(valueName)
    /\ UNCHANGED <<pc, callSites, imports, condVars, baseVars>>

\* obj is a top-level require binding and prop is already destructured.
RewriteFromDestructuring ==
    /\ Visiting
    /\ ~ MapHas(replaceMapping, Key(Site.object, Site.property))
    /\ getDefaultImport(Site.object) = {}
    /\ requireDecl(Site.object)
    /\ \E targetProperty \in propertyDecl(Site.object, Site.property, visited + 1) :
         /\ Bind(targetProperty.local)
         /\ Replace(targetProperty.local)
    /\ UNCHANGED <<pc, callSites, imports, declarations, condVars, baseVars>>

\* obj is neither a default import nor a top-level require binding.
LeaveCallSite ==
    /\ Visiting
    /\ ~ MapHas(replaceMapping, Key(Site.object, Site.property))
    /\ getDefaultImport(Site.object) = {}
    /\ ~ requireDecl(Site.object)
    /\ visited' = visited + 1
    /\ UNCHANGED <<pc, callSites, replaced, replaceMapping, imports, declarations,
                   bindLog, condVars, baseVars>>

\* After the traversal: importManager.applyImportToRoot.
ApplyImports ==
    /\ pc = "start"
    /\ visited = Len(callSites)
    /\ pc' = "done"
    /\ UNCHANGED <<callVars, condVars, baseVars>>

NextIndirect ==
    \/ RewriteFromMapping
    \/ RewriteFromNamedImport
    \/ RewriteWithNewImport
    \/ RewriteWithNewDestructuring
    \/ RewriteFromDestructuring
    \/ LeaveCallSite
    \/ ApplyImports

SpecIndirect == InitIndirect /\ [][NextIndirect]_vars

SiteKey(i) == callSites[i].object \o "." \o callSites[i].property

Rewritten(i) == i <= visited /\ replaced[i] # Null

Bound(key) == \E e \in replaceMapping : e.key = key

(* C14: each key obj.prop is bound in replaceMapping at most once; every    *)
(* call site that was rewritten is a direct call of the one local name its  *)
(* key is bound to, with the site's own argument list, so that two          *)
(* rewritten sites with the same key call the same name; a visited call     *)
(* site whose obj is neither a default import nor a top-level require       *)
(* binding is left as it was and its key is not bound.                      *)
C14_ConsistentPerKey ==
    /\ \A p, q \in 1..Len(bindLog) : bindLog[p] = bindLog[q] => p = q
    /\ \A e1, e2 \in replaceMapping : e1.key = e2.key => e1 = e2
    /\ \A i \in 1..Len(callSites) :
          Rewritten(i) =>
              \E e \in replaceMapping :
                  /\ e.key = SiteKey(i)
                  /\ replaced[i] = [type |-> "CallExpression", callee |-> e.value,
                                    arguments |-> callSites[i].arguments]
    /\ \A i, k \in 1..Len(callSites) :
          (Rewritten(i) /\ Rewritten(k) /\ SiteKey(i) = SiteKey(k))
              => replaced[i].callee = replaced[k].callee
    /\ \A i \in 1..visited :
          callSites[i].object \notin {"s", "t", "r"}
              => replaced[i] = Null /\ ~ Bound(SiteKey(i))

\* The traversal is over: two call sites with the same key were rewritten,
\* the second one from the mapping, and a call site on `u` was left alone.
C14_Witness ==
    /\ pc = "done"
    /\ \E i, k \in 1..Len(callSites) :
          i < k /\ Rewritten(i) /\ Rewritten(k) /\ SiteKey(i) = SiteKey(k)
    /\ \E i \in 1..Len(callSites) : callSites[i].object = "u" /\ replaced[i] = Null
    /\ Len(bindLog) = 1

=============================================================================
